---- MODULE Spec2Model ----
(***************************************************************************)
(* The github.createIssueComment component of superplane                   *)
(* (pkg/integrations/github/create_issue_comment.go) as a state machine:   *)
(* the host drives one node through Setup, Execute, Cancel, HandleWebhook, *)
(* HandleAction, ProcessQueueItem and Cleanup.  The state is what the host *)
(* passes in by reference (Node Metadata, the Integration Context, the     *)
(* execution state that records Emit calls), the external GitHub calls     *)
(* made, and what each handler returned.                                   *)
(***************************************************************************)
EXTENDS Integers, Sequences, FiniteSets, TLC

VARIABLES
    integration,  \* Integration Context metadata: Owner and Repositories
    metadata,     \* Node Metadata (core.MetadataContext): Nil or NodeMetadata
    setupPc,      \* position of the Setup call: "idle" or "validating"
    setupCfg,     \* configuration map of the current / last Setup call
    setupBefore,  \* Node Metadata when the current / last Setup call began
    setupErr,     \* error returned by the last completed Setup call
    setupRepeat,  \* what the Setup call just before the current one returned,
                  \* when it ran on the same inputs with nothing in between
    execPc,       \* position of the Execute call
    execCfg,      \* configuration map of the current / last Execute call
    calls,        \* Issues.CreateComment calls issued by that Execute
    comment,      \* the comment the external call returned
    emits,        \* ExecutionState.Emit calls performed by that Execute
    execErr,      \* error returned by that Execute
    cancelled,    \* a Cancel returned before that Execute issued its call
    resolved,     \* metadata was stored by a Setup call that returned nil
    last          \* the step taken last, with what it returned

vars == <<integration, metadata, setupPc, setupCfg, setupBefore, setupErr,
          setupRepeat, execPc, execCfg, calls, comment, emits, execErr,
          cancelled, resolved, last>>

setupVars == <<setupPc, setupCfg, setupBefore, setupErr, setupRepeat>>
execVars == <<execPc, execCfg, calls, comment, emits, execErr, cancelled>>

-----------------------------------------------------------------------------
(* Bounds of the model *)

\* longest repository list an Integration Context exposes
MaxRepos == 2

-----------------------------------------------------------------------------
(* Values *)

Nil == [nil |-> TRUE]

\* A nil error.  An error is the sequence of the words of its message.
NoError == << >>

\* In place of an error: the call has not returned.
Pending == <<"<pending>">>

\* No configuration is held.
None == [none |-> TRUE]

\* A value of a raw configuration map (map[string]any): a Go string, or a
\* value of another type (a number a host expression evaluated to).
Str(s) == [t |-> "string", v |-> s]
NonStr(s) == [t |-> "int", v |-> s]

\* The characters of the strings used as issue numbers.
Chars(s) ==
    CASE s = "" -> << >>
      [] s = "42" -> <<"4", "2">>
      [] s = "-1" -> <<"-", "1">>
      [] s = "abc" -> <<"a", "b", "c">>

Digits == {"0", "1", "2", "3", "4", "5", "6", "7", "8", "9"}

DigitVal(c) ==
    CASE c = "0" -> 0 [] c = "1" -> 1 [] c = "2" -> 2 [] c = "3" -> 3
      [] c = "4" -> 4 [] c = "5" -> 5 [] c = "6" -> 6 [] c = "7" -> 7
      [] c = "8" -> 8 [] c = "9" -> 9

RECURSIVE DecimalValue(_)
DecimalValue(cs) ==
    IF cs = << >> THEN 0
    ELSE 10 * DecimalValue(SubSeq(cs, 1, Len(cs) - 1)) + DigitVal(cs[Len(cs)])

\* strconv.Atoi: an optional sign followed by one or more decimal digits.
Atoi(s) ==
    LET cs == Chars(s)
        signed == cs # << >> /\ cs[1] \in {"+", "-"}
        ds == IF signed THEN Tail(cs) ELSE cs
    IN  IF ds = << >> \/ \E i \in 1..Len(ds) : ds[i] \notin Digits
        THEN [err |-> <<"strconv.Atoi", ":", "parsing", s, ":", "invalid", "syntax">>,
              n |-> 0]
        ELSE [err |-> NoError,
              n |-> IF signed /\ cs[1] = "-" THEN 0 - DecimalValue(ds)
                    ELSE DecimalValue(ds)]

\* fmt.Errorf("<context>: %w", err)
Wrap(context, err) == context \o <<":">> \o err

\* strings.Contains on error messages: phrase is a contiguous run of words.
Contains(err, phrase) ==
    \E i \in 0..(Len(err) - Len(phrase)) :
        SubSeq(err, i + 1, i + Len(phrase)) = phrase

-----------------------------------------------------------------------------
(* Integration Context *)

helloRepo == [ID |-> 123456, Name |-> "hello", URL |-> "https://github.com/testhq/hello"]
helloDup == [ID |-> 2, Name |-> "hello", URL |-> "https://github.com/otherhq/hello"]
worldRepo == [ID |-> 3, Name |-> "world", URL |-> "https://github.com/testhq/world"]

Repository == {helloRepo, helloDup, worldRepo}

\* Repository lists: distinct repositories, names not necessarily distinct.
RepositoryLists ==
    {l \in UNION {[1..n -> Repository] : n \in 0..MaxRepos} :
        \A i, j \in 1..Len(l) : i # j => l[i] # l[j]}

\* Metadata of the integration, as the host holds it: the owning account
\* and the repositories the installation can reach.
Metadata == [Owner : {Str("testhq")}, Repositories : RepositoryLists]

\* ctx.Integration.GetMetadata() returns an untyped value: what the host
\* holds, or a value of another shape, which the decode rejects.
GetMetadata(m) == {m, [m EXCEPT !.Owner = NonStr("7")]}

-----------------------------------------------------------------------------
(* Raw configuration maps *)

Keys == {"repository", "issueNumber", "body"}

\* A key the map does not hold.
Absent == [t |-> "absent", v |-> ""]

ValuesOf(k) ==
    CASE k = "repository" -> {Str(""), Str("hello"), Str("world")}
      [] k = "issueNumber" -> {Str(""), Str("42"), Str("abc"), NonStr("42")}
      [] k = "body" -> {Str(""), Str("Test comment")}

\* map[string]any, restricted to the keys the component reads: each key
\* holds a value or is absent.
Configurations ==
    [repository : ValuesOf("repository") \cup {Absent},
     issueNumber : ValuesOf("issueNumber") \cup {Absent},
     body : ValuesOf("body") \cup {Absent}]

\* _, ok := cfg[k]
HasKey(cfg, k) == cfg[k] # Absent

\* DecodeField with an absent key reported as an error instead of leaving
\* the zero value.
DecodeFieldUnset(cfg, k) ==
    IF ~HasKey(cfg, k) THEN [err |-> <<k, "has", "unset", "fields">>, v |-> ""]
    ELSE IF cfg[k].t = "string" THEN [err |-> NoError, v |-> cfg[k].v]
    ELSE [err |-> <<k, "expected", "type", "string", "got", cfg[k].t>>, v |-> ""]

\* mapstructure.Decode into one string field: an absent key leaves the
\* zero value "", a string is copied, any other type is an error.
DecodeField(cfg, k) ==
    IF ~HasKey(cfg, k) THEN [err |-> NoError, v |-> ""]
    ELSE IF cfg[k].t = "string" THEN [err |-> NoError, v |-> cfg[k].v]
    ELSE [err |-> <<k, "expected", "type", "string", "got", cfg[k].t>>, v |-> ""]

\* mapstructure.Decode(ctx.Configuration, &config)
DecodeConfiguration(cfg) ==
    LET r == DecodeField(cfg, "repository")
        i == DecodeField(cfg, "issueNumber")
        b == DecodeField(cfg, "body")
        errs == r.err \o i.err \o b.err
    IN  [err |-> errs,
         config |-> [Repository |-> r.v, IssueNumber |-> i.v, Body |-> b.v]]

\* mapstructure.Decode(ctx.Integration.GetMetadata(), &appMetadata)
DecodeMetadata(m) ==
    IF m.Owner.t = "string"
    THEN [err |-> NoError, Owner |-> m.Owner.v]
    ELSE [err |-> <<"Owner", "expected", "type", "string", "got", m.Owner.t>>,
          Owner |-> ""]

-----------------------------------------------------------------------------
(* Setup *)

NodeMetadata(r) == [Repository |-> r]

\* The repository string of a raw configuration map: "" when the key is
\* absent.
getRepositoryFromConfiguration(cfg) ==
    IF HasKey(cfg, "repository") /\ cfg["repository"].t = "string"
    THEN cfg["repository"].v
    ELSE ""

\* Indexes of the known repositories named name.
MatchingRepos(m, name) ==
    {i \in 1..Len(m.Repositories) : m.Repositories[i].Name = name}

\* The index of the first known repository named name.
FirstMatch(m, name) ==
    CHOOSE i \in MatchingRepos(m, name) : \A j \in MatchingRepos(m, name) : i <= j

\* ensureRepoInMetadata(ctx.Metadata, ctx.Integration, ctx.Configuration):
\* the repository must be given and be one the installation can reach; the
\* resolved repository object then replaces the Node Metadata.
ensureRepoInMetadata(meta, m, cfg) ==
    LET repository == getRepositoryFromConfiguration(cfg)
    IN  IF repository = ""
        THEN [err |-> <<"repository", "is", "required">>, meta |-> meta]
        ELSE IF MatchingRepos(m, repository) = {}
        THEN [err |-> <<"repository", repository, "is", "not", "accessible",
                        "to", "app", "installation">>,
              meta |-> meta]
        ELSE [err |-> NoError,
              meta |-> NodeMetadata(m.Repositories[FirstMatch(m, repository)])]

\* ValidateRepository run after the other required fields, not before.
ValidateRepositoryLate(meta, m, cfg) ==
    LET d == DecodeConfiguration(cfg)
        fieldsErr ==
            IF d.config.IssueNumber = "" THEN <<"issue", "number", "is", "required">>
            ELSE IF d.config.Body = "" THEN <<"body", "is", "required">>
            ELSE NoError
    IN  IF fieldsErr # NoError
        THEN [err |-> fieldsErr, meta |-> meta]
        ELSE ensureRepoInMetadata(meta, m, cfg)

\* ValidateRepository that keeps Node Metadata once it is set.
ValidateRepositoryKeep(meta, m, cfg) ==
    LET r == ensureRepoInMetadata(meta, m, cfg)
    IN  IF meta # Nil THEN [err |-> r.err, meta |-> meta] ELSE r

\* ValidateRepository that refuses a repository the node already holds.
ValidateRepositoryOnce(meta, m, cfg) ==
    LET r == ensureRepoInMetadata(meta, m, cfg)
    IN  IF r.err = NoError /\ meta = r.meta
        THEN [err |-> <<"repository", "already", "set">>, meta |-> meta]
        ELSE r

\* ValidateRepository run after the configuration map is decoded.
ValidateRepositoryAfterDecode(meta, m, cfg) ==
    LET d == DecodeConfiguration(cfg)
    IN  IF d.err # NoError
        THEN [err |-> Wrap(<<"failed", "to", "decode", "configuration">>, d.err),
              meta |-> meta]
        ELSE ensureRepoInMetadata(meta, m, cfg)

\* Setup, first part: the repository check; an error returns at once.
ValidateRepository(meta, m, cfg) == ensureRepoInMetadata(meta, m, cfg)

\* ValidateFields with the body checked before the issue number.
ValidateFieldsBodyFirst(cfg) ==
    LET d == DecodeConfiguration(cfg)
    IN  IF d.err # NoError
        THEN Wrap(<<"failed", "to", "decode", "configuration">>, d.err)
        ELSE IF d.config.Body = ""
        THEN <<"body", "is", "required">>
        ELSE IF d.config.IssueNumber = ""
        THEN <<"issue", "number", "is", "required">>
        ELSE NoError

\* Setup, second part: decode, then the other required fields in order.
ValidateFields(cfg) ==
    LET d == DecodeConfiguration(cfg)
    IN  IF d.err # NoError
        THEN Wrap(<<"failed", "to", "decode", "configuration">>, d.err)
        ELSE IF d.config.IssueNumber = ""
        THEN <<"issue", "number", "is", "required">>
        ELSE IF d.config.Body = ""
        THEN <<"body", "is", "required">>
        ELSE NoError

\* The whole of Setup as a function of what it is given: the error it
\* returns and the Node Metadata it leaves.
Setup(meta, m, cfg) ==
    LET r == ValidateRepository(meta, m, cfg)
    IN  IF r.err # NoError THEN r
        ELSE [err |-> ValidateFields(cfg), meta |-> r.meta]

\* The host calls Setup; the repository check runs.
SetupBegin ==
    /\ setupPc = "idle"
    /\ execPc \in {"idle", "done"}
    /\ \E cfg \in Configurations :
         LET r == ValidateRepository(metadata, integration, cfg)
         IN  /\ setupCfg' = cfg
             /\ setupBefore' = metadata
             /\ setupRepeat' = IF setupCfg = cfg THEN setupErr ELSE Pending
             /\ metadata' = r.meta
             /\ IF r.err # NoError
                THEN /\ setupPc' = "idle"
                     /\ setupErr' = r.err
                     /\ resolved' = (resolved /\ metadata' = metadata)
                ELSE /\ setupPc' = "validating"
                     /\ setupErr' = Pending
                     /\ resolved' = FALSE
    /\ execPc' = "idle"
    /\ execCfg' = None
    /\ calls' = << >>
    /\ comment' = Nil
    /\ emits' = << >>
    /\ execErr' = Pending
    /\ cancelled' = FALSE
    /\ last' = [op |-> "SetupBegin"]
    /\ UNCHANGED integration

\* Setup decodes the configuration, checks the other fields and returns.
SetupFinish ==
    /\ setupPc = "validating"
    /\ setupPc' = "idle"
    /\ setupErr' = ValidateFields(setupCfg)
    /\ resolved' = (setupErr' = NoError)
    /\ last' = [op |-> "SetupFinish"]
    /\ UNCHANGED <<integration, metadata, setupCfg, setupBefore, setupRepeat>>
    /\ UNCHANGED execVars

-----------------------------------------------------------------------------
(* Execute *)

DefaultOutputChannel == [Name |-> "default", Label |-> "Default"]

\* PrepareCall that decodes the integration metadata before it parses the
\* issue number.
PrepareCallMetadataFirst(m, cfg, clientOK) ==
    LET d == DecodeConfiguration(cfg)
        n == Atoi(d.config.IssueNumber)
        a == DecodeMetadata(m)
    IN  IF d.err # NoError
        THEN [err |-> Wrap(<<"failed", "to", "decode", "configuration">>, d.err),
              call |-> Nil]
        ELSE IF a.err # NoError
        THEN [err |-> Wrap(<<"failed", "to", "decode", "application", "metadata">>,
                           a.err),
              call |-> Nil]
        ELSE IF n.err # NoError
        THEN [err |-> Wrap(<<"issue", "number", "is", "not", "a", "valid", "number">>,
                           n.err),
              call |-> Nil]
        ELSE IF ~clientOK
        THEN [err |-> Wrap(<<"failed", "to", "initialize", "GitHub", "client">>,
                           <<"no", "installation", "token">>),
              call |-> Nil]
        ELSE [err |-> NoError,
              call |-> [owner |-> a.Owner, repo |-> d.config.Repository,
                        number |-> n.n, body |-> d.config.Body]]

\* PrepareCall that leaves the body out of the comment it sends.
PrepareCallDropsBody(m, cfg, clientOK) ==
    LET d == DecodeConfiguration(cfg)
        n == Atoi(d.config.IssueNumber)
        a == DecodeMetadata(m)
    IN  IF d.err # NoError
        THEN [err |-> Wrap(<<"failed", "to", "decode", "configuration">>, d.err),
              call |-> Nil]
        ELSE IF n.err # NoError
        THEN [err |-> Wrap(<<"issue", "number", "is", "not", "a", "valid", "number">>,
                           n.err),
              call |-> Nil]
        ELSE IF a.err # NoError
        THEN [err |-> Wrap(<<"failed", "to", "decode", "application", "metadata">>,
                           a.err),
              call |-> Nil]
        ELSE IF ~clientOK
        THEN [err |-> Wrap(<<"failed", "to", "initialize", "GitHub", "client">>,
                           <<"no", "installation", "token">>),
              call |-> Nil]
        ELSE [err |-> NoError,
              call |-> [owner |-> a.Owner, repo |-> d.config.Repository,
                        number |-> n.n, body |-> ""]]

\* Execute up to the external call: the checks in order, then the
\* arguments of client.Issues.CreateComment.  clientOK is whether NewClient
\* succeeds.
PrepareCall(m, cfg, clientOK) ==
    LET d == DecodeConfiguration(cfg)
        n == Atoi(d.config.IssueNumber)
        a == DecodeMetadata(m)
    IN  IF d.err # NoError
        THEN [err |-> Wrap(<<"failed", "to", "decode", "configuration">>, d.err),
              call |-> Nil]
        ELSE IF n.err # NoError
        THEN [err |-> Wrap(<<"issue", "number", "is", "not", "a", "valid", "number">>,
                           n.err),
              call |-> Nil]
        ELSE IF a.err # NoError
        THEN [err |-> Wrap(<<"failed", "to", "decode", "application", "metadata">>,
                           a.err),
              call |-> Nil]
        ELSE IF ~clientOK
        THEN [err |-> Wrap(<<"failed", "to", "initialize", "GitHub", "client">>,
                           <<"no", "installation", "token">>),
              call |-> Nil]
        ELSE [err |-> NoError,
              call |-> [owner |-> a.Owner, repo |-> d.config.Repository,
                        number |-> n.n, body |-> d.config.Body]]

\* The Emit call Execute makes with the created comment.
EmitCall(c) ==
    [channel |-> DefaultOutputChannel.Name, type |-> "github.issueComment",
     payload |-> <<c>>]

\* The host calls Execute with a configuration map.
ExecuteBegin ==
    /\ setupPc = "idle"
    /\ execPc \in {"idle", "done"}
    /\ \E cfg \in Configurations : execCfg' = cfg
    /\ execPc' = "started"
    /\ calls' = << >>
    /\ comment' = Nil
    /\ emits' = << >>
    /\ execErr' = Pending
    /\ cancelled' = FALSE
    /\ setupCfg' = None
    /\ setupBefore' = metadata
    /\ setupErr' = Pending
    /\ setupRepeat' = Pending
    /\ last' = [op |-> "ExecuteBegin"]
    /\ UNCHANGED <<integration, metadata, setupPc, resolved>>

\* Execute runs its checks and, when they pass, issues the external call.
ExecutePrepare ==
    /\ execPc = "started"
    /\ \E m \in GetMetadata(integration), clientOK \in BOOLEAN :
         /\ LET p == PrepareCall(m, execCfg, clientOK)
            IN  IF p.err # NoError
                THEN /\ execPc' = "done"
                     /\ execErr' = p.err
                     /\ calls' = calls
                ELSE /\ execPc' = "calling"
                     /\ execErr' = execErr
                     /\ calls' = Append(calls, p.call)
         /\ last' = [op |-> "ExecutePrepare", metadata |-> m,
                        clientOK |-> clientOK]
    /\ UNCHANGED <<integration, metadata, resolved, execCfg, comment, emits,
                   cancelled>>
    /\ UNCHANGED setupVars

\* ExecuteCallReturn that issues the call a second time when it fails.
ExecuteCallReturnRetry ==
    /\ execPc = "calling"
    /\ \E ok \in BOOLEAN :
         IF ok
         THEN /\ comment' = [ID |-> 1, Body |-> calls[Len(calls)].body]
              /\ execPc' = "emitting"
              /\ execErr' = execErr
              /\ calls' = calls
         ELSE /\ comment' = Nil
              /\ IF Len(calls) < 2
                 THEN /\ calls' = Append(calls, calls[Len(calls)])
                      /\ execPc' = "calling"
                      /\ execErr' = execErr
                 ELSE /\ calls' = calls
                      /\ execPc' = "done"
                      /\ execErr' = Wrap(<<"failed", "to", "create", "issue", "comment">>,
                                         <<"POST", "422">>)
    /\ last' = [op |-> "ExecuteCallReturn"]
    /\ UNCHANGED <<integration, metadata, resolved, execCfg, emits, cancelled>>
    /\ UNCHANGED setupVars

\* ExecuteCallReturn that goes on to Emit when the call has failed.
ExecuteCallReturnEmitAnyway ==
    /\ execPc = "calling"
    /\ \E ok \in BOOLEAN :
         /\ comment' = IF ok THEN [ID |-> 1, Body |-> calls[Len(calls)].body]
                       ELSE Nil
         /\ execPc' = "emitting"
         /\ execErr' = execErr
    /\ last' = [op |-> "ExecuteCallReturn"]
    /\ UNCHANGED <<integration, metadata, resolved, execCfg, calls, emits,
                   cancelled>>
    /\ UNCHANGED setupVars

\* client.Issues.CreateComment returns: the created comment, or an error.
ExecuteCallReturn ==
    /\ execPc = "calling"
    /\ \E ok \in BOOLEAN :
         IF ok
         THEN /\ comment' = [ID |-> 1, Body |-> calls[Len(calls)].body]
              /\ execPc' = "emitting"
              /\ execErr' = execErr
         ELSE /\ comment' = Nil
              /\ execPc' = "done"
              /\ execErr' = Wrap(<<"failed", "to", "create", "issue", "comment">>,
                                 <<"POST", "422">>)
    /\ last' = [op |-> "ExecuteCallReturn"]
    /\ UNCHANGED <<integration, metadata, resolved, execCfg, calls, emits,
                   cancelled>>
    /\ UNCHANGED setupVars

\* Execute emits the comment and returns what Emit returns.
ExecuteEmit ==
    /\ execPc = "emitting"
    /\ emits' = Append(emits, EmitCall(comment))
    /\ \E e \in {NoError, <<"emit", "failed">>} : execErr' = e
    /\ execPc' = "done"
    /\ last' = [op |-> "ExecuteEmit"]
    /\ UNCHANGED <<integration, metadata, resolved, execCfg, calls, comment,
                   cancelled>>
    /\ UNCHANGED setupVars

-----------------------------------------------------------------------------
(* The other handlers *)

\* The host runs no Setup or Execute for the node.
Quiescent == setupPc = "idle" /\ execPc \in {"idle", "done"}

\* What ctx.DefaultProcessing() of the host may return.
DefaultProcessing ==
    {[id |-> "uuid-1", err |-> NoError], [id |-> "nil", err |-> NoError],
     [id |-> "nil", err |-> <<"queue", "unavailable">>]}

ProcessQueueItem ==
    /\ Quiescent
    /\ \E r \in DefaultProcessing :
         last' = [op |-> "ProcessQueueItem", host |-> r, id |-> r.id,
                  err |-> r.err]
    /\ UNCHANGED <<integration, metadata, resolved>>
    /\ UNCHANGED setupVars
    /\ UNCHANGED execVars

\* HandleWebhook that drops the Node Metadata of the node it is delivered to.
HandleWebhookReset ==
    /\ last' = [op |-> "HandleWebhook", status |-> 200, err |-> NoError]
    /\ metadata' = Nil
    /\ UNCHANGED <<integration, resolved>>
    /\ UNCHANGED setupVars
    /\ UNCHANGED execVars

\* Webhooks arrive at any time, also while Setup or Execute runs.
HandleWebhook ==
    /\ last' = [op |-> "HandleWebhook", status |-> 200, err |-> NoError]
    /\ UNCHANGED <<integration, metadata, resolved>>
    /\ UNCHANGED setupVars
    /\ UNCHANGED execVars

HandleAction ==
    /\ Quiescent
    /\ last' = [op |-> "HandleAction", err |-> NoError]
    /\ UNCHANGED <<integration, metadata, resolved>>
    /\ UNCHANGED setupVars
    /\ UNCHANGED execVars

\* Cancel of the execution in flight: returns nil and does nothing else.
\* cancelled notes that a Cancel returned before the external call was
\* issued.
Cancel ==
    /\ execPc \in {"started", "calling", "emitting"}
    /\ last' = [op |-> "Cancel", err |-> NoError]
    /\ cancelled' = (cancelled \/ execPc = "started")
    /\ UNCHANGED <<integration, metadata, resolved, execPc, execCfg, calls,
                   comment, emits, execErr>>
    /\ UNCHANGED setupVars

\* Cleanup that drops the Node Metadata of the node.
CleanupReset ==
    /\ Quiescent
    /\ last' = [op |-> "Cleanup", err |-> NoError]
    /\ metadata' = Nil
    /\ UNCHANGED <<integration, resolved>>
    /\ UNCHANGED setupVars
    /\ UNCHANGED execVars

Cleanup ==
    /\ Quiescent
    /\ last' = [op |-> "Cleanup", err |-> NoError]
    /\ UNCHANGED <<integration, metadata, resolved>>
    /\ UNCHANGED setupVars
    /\ UNCHANGED execVars

-----------------------------------------------------------------------------
(* The specification *)

Init ==
    /\ integration \in Metadata
    /\ metadata = Nil
    /\ setupPc = "idle"
    /\ setupCfg = None
    /\ setupBefore = Nil
    /\ setupErr = Pending
    /\ setupRepeat = Pending
    /\ execPc = "idle"
    /\ execCfg = None
    /\ calls = << >>
    /\ comment = Nil
    /\ emits = << >>
    /\ execErr = Pending
    /\ cancelled = FALSE
    /\ resolved = FALSE
    /\ last = [op |-> "none"]

Next ==
    \/ SetupBegin
    \/ SetupFinish
    \/ ExecuteBegin
    \/ ExecutePrepare
    \/ ExecuteCallReturn
    \/ ExecuteEmit
    \/ ProcessQueueItem
    \/ HandleWebhook
    \/ HandleAction
    \/ Cancel
    \/ Cleanup

Spec == Init /\ [][Next]_vars

-----------------------------------------------------------------------------
(* The static descriptor *)

\* OutputChannels that declares no channel when it is given no
\* configuration.
OutputChannelsOfConfiguration(configuration) ==
    IF configuration = Nil THEN << >> ELSE <<DefaultOutputChannel>>

\* OutputChannels(configuration any): the argument is not read.
OutputChannels(configuration) == <<DefaultOutputChannel>>

\* Configuration() with the body declared optional.
ConfigurationBodyOptional ==
    <<[Name |-> "repository", Label |-> "Repository",
       Type |-> "FieldTypeIntegrationResource", Required |-> TRUE],
      [Name |-> "issueNumber", Label |-> "Issue Number",
       Type |-> "FieldTypeString", Required |-> TRUE],
      [Name |-> "body", Label |-> "Body",
       Type |-> "FieldTypeText", Required |-> FALSE]>>

\* Configuration(): the declared fields, in order.
Configuration ==
    <<[Name |-> "repository", Label |-> "Repository",
       Type |-> "FieldTypeIntegrationResource", Required |-> TRUE],
      [Name |-> "issueNumber", Label |-> "Issue Number",
       Type |-> "FieldTypeString", Required |-> TRUE],
      [Name |-> "body", Label |-> "Body",
       Type |-> "FieldTypeText", Required |-> TRUE]>>

\* The host asks for the output channels of a configuration, or of nil.
CallOutputChannels ==
    /\ \E c \in Configurations \cup {Nil} :
         last' = [op |-> "OutputChannels", configuration |-> c,
                  channels |-> OutputChannels(c)]
    /\ UNCHANGED <<integration, metadata, resolved>>
    /\ UNCHANGED setupVars
    /\ UNCHANGED execVars

\* The host asks for the configuration schema.
CallConfiguration ==
    /\ last' = [op |-> "Configuration", fields |-> Configuration]
    /\ UNCHANGED <<integration, metadata, resolved>>
    /\ UNCHANGED setupVars
    /\ UNCHANGED execVars

DescriptorNext ==
    \/ CallOutputChannels
    \/ CallConfiguration

\* The descriptor operations alone: they need no instance and no context.
DescriptorSpec == Init /\ [][DescriptorNext]_vars

\* C11: every call of OutputChannels, for every configuration argument and
\* for nil, returns the sequence of exactly one channel, the default output
\* channel.
C11_OneDefaultChannel ==
    last.op = "OutputChannels"
        => /\ Len(last.channels) = 1
           /\ last.channels[1] = DefaultOutputChannel

\* OutputChannels was called with nil, as the test does.
C11_Witness ==
    /\ last.op = "OutputChannels"
    /\ last.configuration = Nil
    /\ last.channels = <<DefaultOutputChannel>>

\* Setup rejects every configuration in which field k is not provided.
SetupRequires(m, k) ==
    \A cfg \in Configurations :
        (~HasKey(cfg, k) \/ cfg[k] = Str("")) => Setup(Nil, m, cfg).err # NoError

\* C12: Configuration() returns exactly the three fields repository
\* ("Repository"), issueNumber ("Issue Number"), body ("Body"), in that
\* order, all required, with pairwise distinct names, and the fields Setup
\* enforces as required are exactly those declared Required.
C12_SchemaMatchesSetup ==
    last.op = "Configuration"
        => /\ Len(last.fields) = 3
           /\ <<last.fields[1].Name, last.fields[1].Label>>
                = <<"repository", "Repository">>
           /\ <<last.fields[2].Name, last.fields[2].Label>>
                = <<"issueNumber", "Issue Number">>
           /\ <<last.fields[3].Name, last.fields[3].Label>> = <<"body", "Body">>
           /\ \A i \in 1..3 : last.fields[i].Required
           /\ \A i, j \in 1..3 : i # j => last.fields[i].Name # last.fields[j].Name
           /\ {k \in Keys : SetupRequires(integration, k)}
                = {last.fields[i].Name : i \in {j \in 1..3 : last.fields[j].Required}}

\* Configuration() was called for a node whose installation reaches the
\* repository hello, so that Setup accepts some configuration.
C12_Witness ==
    /\ last.op = "Configuration"
    /\ Len(last.fields) = 3
    /\ \E cfg \in Configurations : Setup(Nil, integration, cfg).err = NoError

-----------------------------------------------------------------------------
(* Properties of Setup *)

\* The last Setup call has returned and its inputs and result are held.
SetupDone == setupPc = "idle" /\ setupCfg # None /\ setupErr # Pending

\* A required field that is not provided: key absent or empty string.
Missing(cfg, k) == ~HasKey(cfg, k) \/ cfg[k] = Str("")

\* The validation order of the required fields.
FieldOrder == <<"repository", "issueNumber", "body">>

\* How an error message names a field.
FieldWords(k) ==
    CASE k = "repository" -> <<"repository">>
      [] k = "issueNumber" -> <<"issue", "number">>
      [] k = "body" -> <<"body">>

\* The first missing field in validation order.
FirstMissing(cfg) ==
    FieldOrder[CHOOSE i \in 1..3 :
        /\ Missing(cfg, FieldOrder[i])
        /\ \A j \in 1..(i - 1) : ~Missing(cfg, FieldOrder[j])]

\* The error names the first missing field, says "required", and names no
\* other missing field.
NamesFirstMissing(cfg, err) ==
    /\ Contains(err, FieldWords(FirstMissing(cfg)) \o <<"is", "required">>)
    /\ \A k \in Keys :
         Missing(cfg, k) /\ k # FirstMissing(cfg) => ~Contains(err, FieldWords(k))

\* The configured repository is the name of a known repository.
Accessible(m, cfg) ==
    MatchingRepos(m, getRepositoryFromConfiguration(cfg)) # {}

\* Every value of the map is a string, so that the map decodes.
Decodable(cfg) == \A k \in Keys : HasKey(cfg, k) => cfg[k].t = "string"

\* C1 as stated: whenever a required field is missing or empty, the error
\* of Setup names the first missing field and says "required".
C1_AsStated ==
    SetupDone /\ (\E k \in Keys : Missing(setupCfg, k))
        => NamesFirstMissing(setupCfg, setupErr)

\* C1, amended: when a required field is missing or empty and no earlier
\* check of Setup fails first (the repository is itself missing, or it is
\* accessible and the map decodes), the error of Setup names the first
\* missing field in the order repository, issue number, body, says
\* "required" and names no other missing field.
C1_FirstMissingFieldReported ==
    /\ SetupDone
    /\ \E k \in Keys : Missing(setupCfg, k)
    /\ \/ Missing(setupCfg, "repository")
       \/ Accessible(integration, setupCfg) /\ Decodable(setupCfg)
    => NamesFirstMissing(setupCfg, setupErr)

\* Setup returned with issue number and body both missing under an
\* accessible repository, and reported the issue number.
C1_Witness ==
    /\ SetupDone
    /\ Accessible(integration, setupCfg)
    /\ Missing(setupCfg, "issueNumber") /\ Missing(setupCfg, "body")
    /\ setupErr = <<"issue", "number", "is", "required">>

\* C2: a non-empty repository value that names no known repository makes
\* Setup fail with "repository <value> is not accessible to app
\* installation", whatever the other fields hold.
C2_NotAccessibleReported ==
    /\ SetupDone
    /\ getRepositoryFromConfiguration(setupCfg) # ""
    /\ ~Accessible(integration, setupCfg)
    => Contains(setupErr,
                <<"repository", getRepositoryFromConfiguration(setupCfg), "is",
                  "not", "accessible", "to", "app", "installation">>)

\* Setup returned for repository "world", unknown to an installation that
\* knows other repositories, with the issue number missing as well.
C2_Witness ==
    /\ SetupDone
    /\ setupCfg.repository = Str("world")
    /\ Missing(setupCfg, "issueNumber")
    /\ Len(integration.Repositories) = 2
    /\ Contains(setupErr, <<"repository", "world", "is", "not", "accessible">>)

\* C3: after a Setup that returned no error, Node Metadata is exactly
\* NodeMetadata{Repository: r} with r a full repository object (ID, name,
\* URL) of the Integration Context named as the configuration says,
\* whatever the metadata held before.
C3_MetadataIsResolvedRepository ==
    SetupDone /\ setupErr = NoError
        => /\ DOMAIN metadata = {"Repository"}
           /\ \E i \in 1..Len(integration.Repositories) :
                /\ metadata.Repository = integration.Repositories[i]
                /\ integration.Repositories[i].Name = setupCfg.repository.v
                /\ DOMAIN metadata.Repository = {"ID", "Name", "URL"}

\* A successful Setup replaced metadata that held another repository.
C3_Witness ==
    /\ SetupDone /\ setupErr = NoError
    /\ setupBefore = NodeMetadata(worldRepo)
    /\ metadata = NodeMetadata(helloRepo)

\* C4: a Setup call that follows a successful Setup call on the same
\* configuration and Integration Context returns the same result and
\* leaves Node Metadata as the first call left it.
C4_SetupIdempotent ==
    SetupDone /\ setupRepeat = NoError
        => setupErr = setupRepeat /\ metadata = setupBefore

\* Two successful Setup calls in a row on the same inputs, the first of
\* which changed the metadata.
C4_Witness ==
    /\ SetupDone /\ setupRepeat = NoError /\ setupErr = NoError
    /\ metadata = NodeMetadata(helloRepo)
    /\ Len(integration.Repositories) = 2

\* The configuration with key k switched between absent and "".
Toggle(cfg, k) ==
    [cfg EXCEPT ![k] = IF HasKey(cfg, k) THEN Absent ELSE Str("")]

\* C6: for each required field, a configuration with the key absent and
\* the configuration with the key set to "" get the same error from Setup
\* and leave the same Node Metadata.
C6_AbsentSameAsEmpty ==
    SetupDone
        => \A k \in Keys :
             Missing(setupCfg, k)
                 => Setup(setupBefore, integration, Toggle(setupCfg, k))
                        = [err |-> setupErr, meta |-> metadata]

\* Setup returned for a configuration without the issueNumber key, under
\* an accessible repository.
C6_Witness ==
    /\ SetupDone
    /\ ~HasKey(setupCfg, "issueNumber")
    /\ Accessible(integration, setupCfg)
    /\ setupErr = <<"issue", "number", "is", "required">>

\* C8 as stated, for a configuration complete in its other fields: when
\* more than one known repository has the configured name, Setup fails and
\* stores none of them.
C8_AmbiguousNameFails ==
    /\ SetupDone
    /\ Decodable(setupCfg)
    /\ ~Missing(setupCfg, "issueNumber") /\ ~Missing(setupCfg, "body")
    /\ Cardinality(MatchingRepos(integration,
                                 getRepositoryFromConfiguration(setupCfg))) > 1
    => setupErr # NoError /\ metadata = setupBefore

-----------------------------------------------------------------------------
(* Properties of Execute *)

ExecDone == execPc = "done"

\* The checks Execute makes on its configuration pass.
ValidExecConfiguration(cfg) ==
    /\ DecodeConfiguration(cfg).err = NoError
    /\ Atoi(DecodeConfiguration(cfg).config.IssueNumber).err = NoError

\* Execute failed on the integration: its metadata or its client.
IntegrationFailed(err) ==
    \/ Contains(err, <<"failed", "to", "decode", "application", "metadata">>)
    \/ Contains(err, <<"failed", "to", "initialize", "GitHub", "client">>)

C7_CallTargetsMetadata ==
    /\ resolved /\ metadata # Nil /\ calls # << >>
    /\ getRepositoryFromConfiguration(execCfg) # ""
    => calls[1].repo = metadata.Repository.Name

\* C9 as stated: when a Cancel has returned before Execute issued the
\* external call, that Execute issues no call and performs no Emit.
C9_CancelStopsExecute ==
    cancelled => calls = << >> /\ emits = << >>

-----------------------------------------------------------------------------
(* Properties of HandleWebhook *)

\* C10: in every state, also in the middle of a Setup or an Execute, a
\* HandleWebhook step returns 200 and a nil error and leaves Node Metadata,
\* the Integration Context and everything the Setup or Execute in progress
\* has done and will read as they are, so that the run goes on as without
\* the webhook.
C10_WebhookSafe ==
    [][last'.op = "HandleWebhook"
         => /\ last'.status = 200
            /\ last'.err = NoError
            /\ UNCHANGED <<integration, metadata, resolved>>
            /\ UNCHANGED setupVars
            /\ UNCHANGED execVars]_vars

\* A webhook was handled while an Execute waited for its external call,
\* for a node whose metadata is set.
C10_Witness ==
    /\ last.op = "HandleWebhook"
    /\ execPc = "calling"
    /\ metadata # Nil

-----------------------------------------------------------------------------
(* Order and effects of the checks of Setup *)

\* The errors of the checks Setup runs after the repository check.
LaterSetupErrors ==
    {<<"issue", "number", "is", "required">>, <<"body", "is", "required">>,
     <<"failed", "to", "decode", "configuration">>}

\* C13: Setup checks the repository first.  A configuration whose repository
\* is non-empty but not accessible gets "not accessible to app installation"
\* also when the issue number or the body is missing and when the map does
\* not decode; and the errors "issue number is required", "body is required"
\* and "failed to decode configuration" are returned only for a repository
\* that has been found accessible.
C13_RepositoryCheckedFirst ==
    SetupDone
        => /\ (/\ ~Missing(setupCfg, "repository")
               /\ ~Accessible(integration, setupCfg))
                  => /\ Contains(setupErr, <<"is", "not", "accessible", "to",
                                             "app", "installation">>)
                     /\ \A e \in LaterSetupErrors : ~Contains(setupErr, e)
           /\ (\E e \in LaterSetupErrors : Contains(setupErr, e))
                  => /\ ~Missing(setupCfg, "repository")
                     /\ Accessible(integration, setupCfg)

\* Setup returned "not accessible" for a configuration whose issue number is
\* not a string, so that the map does not decode, and whose body is missing.
C13_Witness ==
    /\ SetupDone
    /\ ~Missing(setupCfg, "repository")
    /\ ~Accessible(integration, setupCfg)
    /\ ~Decodable(setupCfg)
    /\ Missing(setupCfg, "body")
    /\ Contains(setupErr, <<"is", "not", "accessible", "to", "app", "installation">>)

\* C14: a Setup call that returns an error leaves Node Metadata exactly as
\* it was before the call, also when the repository is valid and only the
\* issue number or the body is missing.
C14_FailedSetupKeepsMetadata ==
    SetupDone /\ setupErr # NoError => metadata = setupBefore

-----------------------------------------------------------------------------
(* Emission under interleaving, the checks before the call, and frames *)

\* C15: in every state, whatever Cancel and HandleWebhook steps were
\* interleaved with the Execute, the Execute has performed at most one Emit,
\* and an Emit only after its own CreateComment call returned a comment; an
\* Execute whose call failed or was not made has emitted nothing.
C15_EmitOnlyAfterSuccessfulCall ==
    /\ Len(emits) <= 1
    /\ emits # << >>
         => /\ Len(calls) = 1
            /\ comment # Nil
            /\ emits[1].payload = <<comment>>
    /\ calls = << >> \/ comment = Nil => emits = << >>

\* An Execute that a Cancel interleaved with has emitted once, and the last
\* step before this state was a webhook delivery.
C15_Witness ==
    /\ cancelled
    /\ Len(emits) = 1
    /\ Len(calls) = 1
    /\ last.op = "HandleWebhook"

\* The context message of the first check of Execute that fails for the
\* configuration cfg, the integration metadata m and a client that
\* initialises or not; NoError when none fails.
FirstFailingCheck(cfg, m, clientOK) ==
    IF ~Decodable(cfg)
    THEN <<"failed", "to", "decode", "configuration">>
    ELSE IF \/ ~HasKey(cfg, "issueNumber")
            \/ cfg.issueNumber.v = ""
            \/ \E i \in 1..Len(Chars(cfg.issueNumber.v)) :
                 Chars(cfg.issueNumber.v)[i] \notin Digits
    THEN <<"issue", "number", "is", "not", "a", "valid", "number">>
    ELSE IF m.Owner.t # "string"
    THEN <<"failed", "to", "decode", "application", "metadata">>
    ELSE IF ~clientOK
    THEN <<"failed", "to", "initialize", "GitHub", "client">>
    ELSE NoError

\* C16: when a check of Execute before the external call fails (the
\* configuration does not decode, the issue number is not an integer, the
\* integration metadata does not decode, the client does not initialise),
\* Execute returns the error wrapped with the context message of the first
\* failing check in that order, and makes no CreateComment call and no Emit.
C16_FirstFailingCheckReported ==
    /\ last.op = "ExecutePrepare"
         => LET e == FirstFailingCheck(execCfg, last.metadata, last.clientOK)
            IN  /\ e # NoError
                     => /\ ExecDone
                        /\ Len(execErr) > Len(e)
                        /\ SubSeq(execErr, 1, Len(e)) = e
                        /\ calls = << >>
                        /\ emits = << >>
                /\ e = NoError => Len(calls) = 1 /\ execErr = Pending
    /\ ExecDone /\ calls = << >> => execErr # NoError /\ emits = << >>

\* Execute returned the issue-number error for a configuration whose issue
\* number is not a number, on an integration whose metadata does not decode
\* and whose client does not initialise either.
C16_Witness ==
    /\ last.op = "ExecutePrepare"
    /\ Decodable(execCfg)
    /\ last.metadata.Owner.t # "string"
    /\ ~last.clientOK
    /\ Contains(execErr, <<"issue", "number", "is", "not", "a", "valid", "number">>)
    /\ calls = << >>

\* Setup would return no error for this configuration in this state.
SetupAccepts(cfg) == Setup(metadata, integration, cfg).err = NoError

\* C17 as stated: an Execute with a configuration that Setup accepts passes
\* its own checks of the configuration and reaches the CreateComment call.
C17_AsStated ==
    ExecDone /\ SetupAccepts(execCfg) /\ ~IntegrationFailed(execErr)
        => Len(calls) = 1

\* C17, amended: an Execute with a configuration that Setup accepts passes
\* the decode of the configuration; when the issue number is a decimal
\* integer and the integration is usable it makes the CreateComment call,
\* with a non-empty body and for a repository the installation can reach;
\* when the issue number is not an integer, which Setup does not check, it
\* makes no call and returns "issue number is not a valid number".
C17_AcceptedConfigurationAtExecute ==
    ExecDone /\ SetupAccepts(execCfg)
        => /\ ~Contains(execErr, <<"failed", "to", "decode", "configuration">>)
           /\ (/\ Atoi(execCfg.issueNumber.v).err = NoError
               /\ ~IntegrationFailed(execErr))
                  => /\ Len(calls) = 1
                     /\ calls[1].body # ""
                     /\ MatchingRepos(integration, calls[1].repo) # {}
           /\ Atoi(execCfg.issueNumber.v).err # NoError
                  => /\ calls = << >>
                     /\ Contains(execErr, <<"issue", "number", "is", "not", "a",
                                            "valid", "number">>)

\* Execute returned for a configuration Setup accepts whose issue number is
\* "abc".
C17_Witness ==
    /\ ExecDone
    /\ SetupAccepts(execCfg)
    /\ execCfg.issueNumber = Str("abc")
    /\ calls = << >>
    /\ Contains(execErr, <<"issue", "number", "is", "not", "a", "valid", "number">>)

\* The steps of Execute.
ExecuteSteps ==
    {"ExecuteBegin", "ExecutePrepare", "ExecuteCallReturn", "ExecuteEmit"}

\* C18: only a step of Setup changes Node Metadata and only a step of
\* Execute emits: the steps of Execute, Cancel, Cleanup, HandleAction and
\* ProcessQueueItem leave Node Metadata as it is; Cancel, Cleanup and
\* HandleAction return no error and make no Emit and no external call;
\* ProcessQueueItem returns the identifier and the error that
\* DefaultProcessing of the host returned.
C18_OnlySetupWritesOnlyExecuteEmits ==
    [][/\ last'.op \in ExecuteSteps \cup {"Cancel", "Cleanup", "HandleAction",
                                          "ProcessQueueItem"}
            => metadata' = metadata
       /\ metadata' # metadata => last'.op = "SetupBegin"
       /\ Len(emits') > Len(emits) => last'.op = "ExecuteEmit"
       /\ Len(calls') > Len(calls) => last'.op = "ExecutePrepare"
       /\ last'.op \in {"Cancel", "Cleanup", "HandleAction"}
            => /\ last'.err = NoError
               /\ emits' = emits
               /\ calls' = calls
       /\ last'.op = "ProcessQueueItem"
            => /\ last'.host \in DefaultProcessing
               /\ last'.id = last'.host.id
               /\ last'.err = last'.host.err
               /\ emits' = emits
               /\ calls' = calls]_vars

\* Cleanup returned on a node that holds a resolved repository and whose
\* last Execute has emitted.
C18_Witness ==
    /\ last.op = "Cleanup"
    /\ last.err = NoError
    /\ metadata # Nil
    /\ Len(emits) = 1

====
